---- MODULE Spec2Model ----
(***************************************************************************)
(* Model of the pump-efficiency plotting scripts: plot_efficiencies.py     *)
(* (load, group, sort, pivot, render) and txt_to_csv.py (row copy).        *)
(*                                                                         *)
(* Units.  Speed is in rpm.  Displacement is held in tenths of a cc/rev    *)
(* and Deltap in hundredths of a MPa, so that the two roundings of         *)
(* load_and_prepare_data are integer computations: RoundedDisplacement is  *)
(* in cc/rev, RoundedDeltap in tenths of a MPa.  Row labels are 1..n in    *)
(* file order (the frame's RangeIndex).                                    *)
(***************************************************************************)
EXTENDS Integers, Sequences, FiniteSets, TLC

VARIABLES
    pc,        \* position of the caller: the next call of main, or an end state
    df,        \* the record table (a sequence of rows, each a record of columns)
    series,    \* the (x, y) series handed to ax.plot by the latest plot call
    images,    \* every image file written by plt.savefig so far
    pivots,    \* every pivot table built so far (rendered or skipped)
    log,       \* messages printed
    src,       \* txt_to_csv: the characters of the input text file
    pos,       \* txt_to_csv: position of the reader in src (next unread character)
    copied,    \* txt_to_csv: the rows the reader has yielded so far
    dst,       \* txt_to_csv: the characters written to the output file
    cells,     \* reading: the fields of the data file, row by row, as text kinds
    error,     \* reading: the exception load_and_prepare_data raised, if any
    dps,       \* curve selection: the sorted distinct pressures of one group
    shown      \* curve selection: the pressures plotted

plotvars == <<df, series, images, pivots, log>>
csvvars == <<src, pos, copied, dst>>
readvars == <<cells, error>>
subvars == <<dps, shown>>
vars == <<pc, plotvars, csvvars, readvars, subvars>>

(***************************************************************************)
(* Bounds of the model.                                                    *)
(***************************************************************************)
MaxRows == 3

SpeedVals == {1000, 2000}
DisplacementVals == {325, 326}            \* 32.5 -> 32 (half to even), 32.6 -> 33
DeltapVals == {1116, 1124, 3200}          \* 11.16 and 11.24 both round to 11.2

\* Efficiencies of an operating point (percent).
EtatOf(s, d, p) == 80 + (s \div 500) + ((p % 100) \div 8) + (d % 10)

RecordPool ==
    { [Speed |-> s, Displacement |-> d, Deltap |-> p,
       Etat |-> EtatOf(s, d, p), Etav |-> EtatOf(s, d, p) + 4,
       Etam |-> EtatOf(s, d, p) + 2] :
        s \in SpeedVals, d \in DisplacementVals, p \in DeltapVals }

Tables == UNION { [1..n -> RecordPool] : n \in 1..MaxRows }

(***************************************************************************)
(* Helpers.                                                                *)
(***************************************************************************)
Range(s) == { s[i] : i \in DOMAIN s }

RECURSIVE sorted(_)
sorted(S) ==
    IF S = {} THEN <<>>
    ELSE LET m == CHOOSE x \in S : \A y \in S : x <= y
         IN  <<m>> \o sorted(S \ {m})

\* numpy rint after scaling: round to the nearest multiple of unit, halves to even
round(x, unit) ==
    LET q == x \div unit
        r == x % unit
    IN  IF 2 * r < unit THEN q
        ELSE IF 2 * r > unit THEN q + 1
        ELSE IF q % 2 = 0 THEN q ELSE q + 1

efficiency_labels == <<"Etat", "Etav", "Etam">>

Index(t) == [i \in 1..Len(t) |-> i]

HasColumn(t, col) == \A i \in DOMAIN t : col \in DOMAIN t[i]

\* the two column assignments, made on the frame itself
AssignRounded(t) ==
    [i \in DOMAIN t |->
        [RoundedDisplacement |-> round(t[i].Displacement, 10),
         RoundedDeltap |-> round(t[i].Deltap, 10)] @@ t[i]]

groupby_upto(t, idx, col) ==
    LET keys == sorted({ t[i][col] : i \in Range(idx) })
    IN  [k \in 1..Len(keys) |->
            [key |-> keys[k],
             rows |-> SelectSeq(idx, LAMBDA i : t[i][col] <= keys[k])]]

\* DataFrame.groupby(col): keys ascending, rows of a group in frame order
groupby(t, idx, col) ==
    LET keys == sorted({ t[i][col] : i \in Range(idx) })
    IN  [k \in 1..Len(keys) |->
            [key |-> keys[k],
             rows |-> SelectSeq(idx, LAMBDA i : t[i][col] = keys[k])]]

\* DataFrame.sort_values on Speed with the default kind, quicksort, which is
\* not a stable sort: the result is ascending in Speed, and rows of equal
\* Speed come out in an order the build decides.  The set of possible results.
Orderings(idx) ==
    { [k \in DOMAIN idx |-> idx[p[k]]] : p \in Permutations(DOMAIN idx) }

sort_values(t, idx) ==
    { s \in Orderings(idx) :
        \A j, k \in DOMAIN s : j < k => t[s[j]].Speed <= t[s[k]].Speed }

\* unique_dps[::step]
RECURSIVE Slice(_, _, _)
Slice(s, from, step) ==
    IF from > Len(s) THEN <<>>
    ELSE <<s[from]>> \o Slice(s, from + step, step)

MaxCurves == 8

CurveStep_ceil(n) == (n + MaxCurves - 1) \div MaxCurves

\* step = max(len(unique_dps) // 8, 1)
CurveStep(n) == IF n \div MaxCurves > 1 THEN n \div MaxCurves ELSE 1

filtered_dps(unique_dps) == Slice(unique_dps, 1, CurveStep(Len(unique_dps)))

\* one call of ax.plot on the Speed and eff columns: the rows of the frame handed
\* over, by label and in order; the x and y data are their Speed and eff
Plot(fn, eff, key, idx) == [fn |-> fn, eff |-> eff, key |-> key, idx |-> idx]

PlotX(t, s) == [k \in DOMAIN s.idx |-> t[s.idx[k]].Speed]

PlotY(t, s) == [k \in DOMAIN s.idx |-> t[s.idx[k]][s.eff]]

Image(fn, eff, key) == [fn |-> fn, eff |-> eff, key |-> key]

(***************************************************************************)
(* plot_efficiencies: one figure per displacement group and metric, one    *)
(* curve per plotted pressure.                                             *)
(***************************************************************************)
unique_dps(t, rows) == sorted({ t[i].RoundedDeltap : i \in Range(rows) })

SubGroup_raw(t, rows, dp) == SelectSeq(rows, LAMBDA i : t[i].Deltap \div 10 = dp)

\* disp_group[disp_group.RoundedDeltap == dp]
SubGroup(t, rows, dp) == SelectSeq(rows, LAMBDA i : t[i].RoundedDeltap = dp)

\* the curves of one sub-group, one per metric, all in the order the sort gave
Curves(fn, key, order) ==
    { Plot(fn, e, key, order) : e \in Range(efficiency_labels) }

\* every set of curves the sub-groups subs can be drawn as
RECURSIVE SeriesOutcomes(_, _, _)
SeriesOutcomes(t, fn, subs) ==
    IF subs = {} THEN {{}}
    ELSE LET g == CHOOSE g \in subs : TRUE
         IN  { Curves(fn, g.key, order) \cup rest :
                 order \in sort_values(t, g.rows),
                 rest \in SeriesOutcomes(t, fn, subs \ {g}) }

EfficienciesGroups(t) ==
    LET groups == groupby(t, Index(t), "RoundedDisplacement")
    IN  UNION { { [key |-> <<groups[k].key, dp>>,
                   rows |-> SubGroup(t, groups[k].rows, dp)] :
                    dp \in Range(filtered_dps(unique_dps(t, groups[k].rows))) } :
                k \in DOMAIN groups }

EfficienciesSeries(t) ==
    SeriesOutcomes(t, "plot_efficiencies", EfficienciesGroups(t))

EfficienciesImages(t) ==
    LET groups == groupby(t, Index(t), "RoundedDisplacement")
    IN  { Image("plot_efficiencies", e, groups[k].key) :
            e \in Range(efficiency_labels), k \in DOMAIN groups }

(***************************************************************************)
(* plot_efficiencies_sep: one figure per target pressure and metric, one   *)
(* curve per displacement among the rows near the target.                  *)
(***************************************************************************)
target_pressures == <<1100, 3200, 3800>>

tolerance == 20

Abs(x) == IF x < 0 THEN -x ELSE x

\* abs(Deltap - target_dp) <= tolerance, in binary floating point:
\* at a distance of exactly 0.2 the float difference is 0.1999999999999993
\* for the pairs listed and 0.20000000000000284 for the others.
FloatTies == { <<1120, 1100>>, <<1080, 1100>>, <<3180, 3200>> }

WithinTolerance(dp, target) ==
    \/ Abs(dp - target) < tolerance
    \/ Abs(dp - target) = tolerance /\ <<dp, target>> \in FloatTies

NearTarget(t, target) ==
    SelectSeq(Index(t), LAMBDA i : WithinTolerance(t[i].Deltap, target))

SepGroups(t) ==
    UNION { LET groups == groupby(t, NearTarget(t, target), "RoundedDisplacement")
            IN  { [key |-> <<target, groups[k].key>>, rows |-> groups[k].rows] :
                    k \in DOMAIN groups } :
            target \in Range(target_pressures) }

SepSeries(t) == SeriesOutcomes(t, "plot_efficiencies_sep", SepGroups(t))

SepImages(t) ==
    { Image("plot_efficiencies_sep", e, target) :
        e \in Range(efficiency_labels),
        target \in { g \in Range(target_pressures) : NearTarget(t, g) # <<>> } }

SepLog(t, upto) ==
    { target_pressures[k] : k \in { j \in 1..upto : NearTarget(t, target_pressures[j]) = <<>> } }

\* position of the first target with data (0 when there is none)
FirstWithData(t) ==
    LET hit == { k \in DOMAIN target_pressures : NearTarget(t, target_pressures[k]) # <<>> }
    IN  IF hit = {} THEN 0 ELSE CHOOSE k \in hit : \A j \in hit : k <= j

(***************************************************************************)
(* Pivot tables of the contour and field views.                            *)
(***************************************************************************)
NaN == [nan |-> TRUE]

RECURSIVE Sum(_, _, _)
Sum(t, rows, eff) ==
    IF rows = <<>> THEN 0 ELSE t[Head(rows)][eff] + Sum(t, Tail(rows), eff)

mean_zero(t, rows, eff) ==
    IF rows = <<>> THEN [num |-> 0, den |-> 1]
    ELSE [num |-> Sum(t, rows, eff), den |-> Len(rows)]

\* aggfunc mean: the mean as the fraction num / den
mean(t, rows, eff) ==
    IF rows = <<>> THEN NaN
    ELSE [num |-> Sum(t, rows, eff), den |-> Len(rows)]

pivot_table(t, rows, eff) ==
    LET index == sorted({ t[i].Speed : i \in Range(rows) })
        columns == sorted({ t[i].RoundedDeltap : i \in Range(rows) })
    IN  [index |-> index, columns |-> columns,
         values |-> [r \in DOMAIN index, c \in DOMAIN columns |->
                        mean(t, SelectSeq(rows, LAMBDA i :
                                    /\ t[i].Speed = index[r]
                                    /\ t[i].RoundedDeltap = columns[c]), eff)]]

\* pivot.shape[0] < 2 or pivot.shape[1] < 2
Degenerate(p) == Len(p.index) < 2 \/ Len(p.columns) < 2

Pivot(fn, eff, disp, p) == [fn |-> fn, eff |-> eff, disp |-> disp, pivot |-> p]

ContourPivots(t) ==
    LET groups == groupby(t, Index(t), "RoundedDisplacement")
    IN  { Pivot("plot_efficiency_contours", e, groups[k].key,
                pivot_table(t, groups[k].rows, e)) :
            e \in Range(efficiency_labels), k \in DOMAIN groups }

ContourImages(t) ==
    { Image("plot_efficiency_contours", q.eff, q.disp) :
        q \in { q \in ContourPivots(t) : ~Degenerate(q.pivot) } }

\* Z.min() of a matrix with a missing cell is nan, and np.arange(nan, nan, 2)
\* raises ValueError
HasMissing(p) ==
    \E r \in DOMAIN p.index, c \in DOMAIN p.columns : p.values[r, c] = NaN

RECURSIVE FieldLoop(_, _, _)
FieldLoop(t, groups, k) ==
    IF k > Len(groups)
    THEN [images |-> {}, pivots |-> {}, crashed |-> FALSE]
    ELSE LET p == pivot_table(t, groups[k].rows, "Etat")
             q == Pivot("plot_total_efficiency_field", "Etat", groups[k].key, p)
             rest == FieldLoop(t, groups, k + 1)
         IN  IF Degenerate(p)
             THEN [rest EXCEPT !.pivots = @ \cup {q}]
             ELSE IF HasMissing(p)
             THEN [images |-> {}, pivots |-> {q}, crashed |-> TRUE]
             ELSE [rest EXCEPT !.pivots = @ \cup {q},
                               !.images = @ \cup {Image("plot_total_efficiency_field",
                                                        "Etat", groups[k].key)}]

(***************************************************************************)
(* The caller.  main calls load_and_prepare_data and then the four plot    *)
(* functions in order; each plot function can also be called on its own    *)
(* with a table that did not come from load_and_prepare_data.              *)
(***************************************************************************)
MainOrder ==
    <<"plot_efficiencies", "plot_efficiencies_sep",
      "plot_efficiency_contours", "plot_total_efficiency_field", "done">>

After(fn, crashed) ==
    IF crashed THEN "crashed"
    ELSE IF pc = "start" THEN "returned"
    ELSE MainOrder[1 + CHOOSE k \in 1..4 : MainOrder[k] = fn]

CsvIdle == src = <<>> /\ pos = 1 /\ copied = <<>> /\ dst = <<>>

ReadIdle == cells = <<>> /\ error = "none"

SubIdle == dps = <<>> /\ shown = <<>>

Init ==
    /\ pc = "start"
    /\ df \in Tables
    /\ series = {}
    /\ images = {}
    /\ pivots = {}
    /\ log = {}
    /\ CsvIdle
    /\ ReadIdle
    /\ SubIdle

load_and_prepare_data ==
    /\ pc = "start"
    /\ df' = AssignRounded(df)
    /\ pc' = "plot_efficiencies"
    /\ UNCHANGED <<series, images, pivots, log, csvvars, readvars, subvars>>

plot_efficiencies ==
    /\ pc \in {"start", "plot_efficiencies"}
    /\ IF ~HasColumn(df, "RoundedDisplacement")
       THEN /\ pc' = "crashed"                        \* KeyError
            /\ series' = {}
            /\ UNCHANGED images
       ELSE /\ series' \in EfficienciesSeries(df)
            /\ images' = images \cup EfficienciesImages(df)
            /\ pc' = After("plot_efficiencies", FALSE)
    /\ UNCHANGED <<df, pivots, log, csvvars, readvars, subvars>>

plot_efficiencies_sep ==
    /\ pc \in {"start", "plot_efficiencies_sep"}
    /\ IF ~HasColumn(df, "RoundedDisplacement") /\ FirstWithData(df) # 0
       THEN /\ pc' = "crashed"                        \* KeyError
            /\ log' = log \cup SepLog(df, FirstWithData(df) - 1)
            /\ series' = {}
            /\ UNCHANGED images
       ELSE /\ series' \in SepSeries(df)
            /\ images' = images \cup SepImages(df)
            /\ log' = log \cup SepLog(df, Len(target_pressures))
            /\ pc' = After("plot_efficiencies_sep", FALSE)
    /\ UNCHANGED <<df, pivots, csvvars, readvars, subvars>>

plot_efficiency_contours ==
    /\ pc \in {"start", "plot_efficiency_contours"}
    /\ df' = AssignRounded(df)
    /\ pivots' = pivots \cup ContourPivots(df')
    /\ images' = images \cup ContourImages(df')
    /\ pc' = After("plot_efficiency_contours", FALSE)
    /\ series' = {}
    /\ UNCHANGED <<log, csvvars, readvars, subvars>>

plot_total_efficiency_field ==
    /\ pc \in {"start", "plot_total_efficiency_field"}
    /\ df' = AssignRounded(df)
    /\ LET run == FieldLoop(df', groupby(df', Index(df'), "RoundedDisplacement"), 1)
       IN  /\ pivots' = pivots \cup run.pivots
           /\ images' = images \cup run.images
           /\ pc' = After("plot_total_efficiency_field", run.crashed)
    /\ series' = {}
    /\ UNCHANGED <<log, csvvars, readvars, subvars>>

Next ==
    \/ load_and_prepare_data
    \/ plot_efficiencies
    \/ plot_efficiencies_sep
    \/ plot_efficiency_contours
    \/ plot_total_efficiency_field

Spec == Init /\ [][Next]_vars

(***************************************************************************)
(* Properties of the plotting pipeline.                                    *)
(***************************************************************************)
Prepared == df # <<>> /\ HasColumn(df, "RoundedDisplacement")

CoarseGroups(t) == Range(groupby(t, Index(t), "RoundedDisplacement"))

FineGroups(t) ==
    UNION { { [key |-> <<g.key, dp>>, rows |-> SubGroup(t, g.rows, dp)] :
                dp \in Range(unique_dps(t, g.rows)) } :
            g \in CoarseGroups(t) }

Members(rows) == { rows[k] : k \in DOMAIN rows }

IsPartition(G, t) ==
    /\ \A g \in G : g.rows # <<>> /\ Cardinality(Members(g.rows)) = Len(g.rows)
    /\ \A i \in DOMAIN t : Cardinality({ g \in G : i \in Members(g.rows) }) = 1
    /\ UNION { Members(g.rows) : g \in G } = DOMAIN t

AllCurvesShown(t) ==
    \A g \in CoarseGroups(t) : CurveStep(Len(unique_dps(t, g.rows))) = 1

\* C1: grouping by RoundedDisplacement, and by RoundedDisplacement and
\* RoundedDeltap, is a partition of the table's rows: every row is in exactly
\* one group, no group is empty, the groups together are all the rows.  The
\* curves of plot_efficiencies (when none is subsampled away) and the pivots
\* of plot_efficiency_contours are one per group.
C1_Partition ==
    Prepared =>
        /\ IsPartition(CoarseGroups(df), df)
        /\ IsPartition(FineGroups(df), df)
        /\ pc = "plot_efficiencies_sep" /\ AllCurvesShown(df) =>
              \A e \in Range(efficiency_labels) :
                 IsPartition({ [key |-> c.key, rows |-> c.idx] :
                                 c \in { c \in series : c.eff = e } }, df)
        /\ pc = "plot_total_efficiency_field" =>
              \A e \in Range(efficiency_labels), i \in DOMAIN df :
                 Cardinality({ q \in pivots :
                                 /\ q.fn = "plot_efficiency_contours"
                                 /\ q.eff = e
                                 /\ q.disp = df[i].RoundedDisplacement }) = 1

C1_Witness ==
    /\ pc = "plot_efficiencies_sep"
    /\ Cardinality(CoarseGroups(df)) = 2
    /\ \E g \in FineGroups(df) : Len(g.rows) = 2

\* C2: every series handed to the renderer is ascending in Speed, and rows of
\* equal Speed are in the order of the input table.
C2_SortedStable ==
    \A c \in series : \A j, k \in DOMAIN c.idx :
        j < k => /\ PlotX(df, c)[j] <= PlotX(df, c)[k]
                 /\ PlotX(df, c)[j] = PlotX(df, c)[k] => c.idx[j] < c.idx[k]

SameRoundedKeys(t, a, b) ==
    /\ t[a].RoundedDisplacement = t[b].RoundedDisplacement
    /\ t[a].RoundedDeltap = t[b].RoundedDeltap

\* C3 as stated: two rows with equal rounded keys are never separated: every
\* plotted series holds both or neither.
C3_NeverSeparated ==
    Prepared =>
        \A a, b \in DOMAIN df : SameRoundedKeys(df, a, b) =>
            \A c \in series : a \in Members(c.idx) <=> b \in Members(c.idx)

\* C3 amended: that holds of the series of plot_efficiencies; a series of
\* plot_efficiencies_sep holds both or neither when the raw Deltap of both is
\* on the same side of the tolerance around the series' target pressure.
C3_SeparatedOnlyByFilter ==
    Prepared =>
        \A a, b \in DOMAIN df : SameRoundedKeys(df, a, b) =>
            \A c \in series :
                \/ a \in Members(c.idx) <=> b \in Members(c.idx)
                \/ /\ c.fn = "plot_efficiencies_sep"
                   /\ WithinTolerance(df[a].Deltap, c.key[1])
                        # WithinTolerance(df[b].Deltap, c.key[1])

C3_Witness ==
    /\ Prepared
    /\ \E a, b \in DOMAIN df : \E c \in series :
          /\ c.fn = "plot_efficiencies"
          /\ SameRoundedKeys(df, a, b)
          /\ df[a].Deltap # df[b].Deltap
          /\ a \in Members(c.idx) /\ b \in Members(c.idx)

RECURSIVE SumOver(_, _, _)
SumOver(t, S, eff) ==
    IF S = {} THEN 0
    ELSE LET i == CHOOSE i \in S : TRUE
         IN  t[i][eff] + SumOver(t, S \ {i}, eff)

Ascending(s) == \A j, k \in DOMAIN s : j < k => s[j] < s[k]

\* C4: every pivot has the group's distinct Speed values as rows and its
\* distinct RoundedDeltap values as columns, both ascending; a cell is the
\* mean of the metric over exactly the group's rows with that Speed and
\* RoundedDeltap, and is missing (not zero) when there is no such row.
C4_PivotMeans ==
    /\ pc = "plot_total_efficiency_field" =>
          \A g \in CoarseGroups(df), e \in Range(efficiency_labels) :
             \E q \in pivots : /\ q.fn = "plot_efficiency_contours"
                                /\ q.eff = e /\ q.disp = g.key
    /\ \A q \in pivots :
           LET group == { i \in DOMAIN df : df[i].RoundedDisplacement = q.disp }
               p == q.pivot
           IN  /\ Ascending(p.index) /\ Ascending(p.columns)
               /\ Range(p.index) = { df[i].Speed : i \in group }
               /\ Range(p.columns) = { df[i].RoundedDeltap : i \in group }
               /\ \A r \in DOMAIN p.index, c \in DOMAIN p.columns :
                     LET cell == { i \in group : /\ df[i].Speed = p.index[r]
                                                 /\ df[i].RoundedDeltap = p.columns[c] }
                     IN  IF cell = {} THEN p.values[r, c] = NaN
                         ELSE /\ p.values[r, c] # NaN
                              /\ p.values[r, c].den = Cardinality(cell)
                              /\ p.values[r, c].num = SumOver(df, cell, q.eff)

C4_Witness ==
    \E q \in pivots :
        /\ q.fn = "plot_efficiency_contours"
        /\ \E r \in DOMAIN q.pivot.index, c \in DOMAIN q.pivot.columns :
              q.pivot.values[r, c] = NaN
        /\ \E r \in DOMAIN q.pivot.index, c \in DOMAIN q.pivot.columns :
              /\ q.pivot.values[r, c] # NaN
              /\ q.pivot.values[r, c].den = 2
              /\ q.pivot.values[r, c].num % 2 = 1

\* the last stage of a run of main has built the field pivots p
FieldPivots == { q \in pivots : q.fn = "plot_total_efficiency_field" }

MainAtField ==
    /\ FieldPivots # {}
    /\ \E q \in pivots : q.fn = "plot_efficiency_contours"

\* C5: an empty target pressure or a pivot too small to contour is skipped
\* and nothing else is: the run is not aborted, the skipped group has no
\* image and every other target pressure, group and metric has its image.
C5_SkipOnlyAffected ==
    /\ pc = "plot_efficiency_contours" =>
          \A k \in DOMAIN target_pressures, e \in Range(efficiency_labels) :
             NearTarget(df, target_pressures[k]) # <<>>
                <=> Image("plot_efficiencies_sep", e, target_pressures[k]) \in images
    /\ pc = "plot_total_efficiency_field" =>
          \A g \in CoarseGroups(df), e \in Range(efficiency_labels) :
             ~Degenerate(pivot_table(df, g.rows, e))
                <=> Image("plot_efficiency_contours", e, g.key) \in images
    /\ MainAtField /\ (\E q \in FieldPivots : Degenerate(q.pivot)) =>
          /\ pc = "done"
          /\ \A g \in CoarseGroups(df) :
                ~Degenerate(pivot_table(df, g.rows, "Etat"))
                   <=> Image("plot_total_efficiency_field", "Etat", g.key) \in images

PlotCall ==
    \/ plot_efficiencies
    \/ plot_efficiencies_sep
    \/ plot_efficiency_contours
    \/ plot_total_efficiency_field

\* C10: no plot function changes the table it is given.
C10_TableUnchanged == [][PlotCall => df' = df]_vars

(***************************************************************************)
(* txt_to_csv.convert: csv.reader over the input and csv.writer over the    *)
(* output, both files opened with an empty newline argument (no newline    *)
(* translation), both with the default excel dialect: comma delimiter,     *)
(* double-quote quotechar, doublequote, CR LF lineterminator,              *)
(* QUOTE_MINIMAL, not strict, no escapechar.  Characters are named; the    *)
(* character a stands for any ordinary character.                          *)
(***************************************************************************)
MaxLen == 5

Chars == {"a", "comma", "quote", "CR", "LF"}

Texts == UNION { [1..n -> Chars] : n \in 0..MaxLen }

\* Iterating a file opened without newline translation: a line ends after
\* LF, CR LF or a lone CR, and keeps its ending.  Position of the last
\* character of the line that starts at from.
RECURSIVE LineEnd(_, _)
LineEnd(text, from) ==
    IF from >= Len(text) THEN Len(text)
    ELSE IF text[from] = "LF" THEN from
    ELSE IF text[from] = "CR"
         THEN IF text[from + 1] = "LF" THEN from + 1 ELSE from
    ELSE LineEnd(text, from + 1)

\* The reader's state: parser state, fields of the record so far, the field
\* being collected.
ParseReset == [state |-> "START_RECORD", fields |-> <<>>, field |-> <<>>]

parse_save_field(r) ==
    [r EXCEPT !.fields = Append(@, r.field), !.field = <<>>]

parse_add_char(r, c) == [r EXCEPT !.field = Append(@, c)]

AfterLineEnd(c) == IF c = "EOL" THEN "START_RECORD" ELSE "EAT_CRNL"

StartField(r, c) ==
    IF c \in {"LF", "CR", "EOL"}
    THEN [parse_save_field(r) EXCEPT !.state = AfterLineEnd(c)]
    ELSE IF c = "quote" THEN [r EXCEPT !.state = "IN_QUOTED_FIELD"]
    ELSE IF c = "comma" THEN [parse_save_field(r) EXCEPT !.state = "START_FIELD"]
    ELSE [parse_add_char(r, c) EXCEPT !.state = "IN_FIELD"]

parse_process_char(r, c) ==
    CASE r.state = "START_RECORD" ->
            IF c = "EOL" THEN r
            ELSE IF c \in {"LF", "CR"} THEN [r EXCEPT !.state = "EAT_CRNL"]
            ELSE StartField(r, c)
      [] r.state = "START_FIELD" -> StartField(r, c)
      [] r.state = "IN_FIELD" ->
            IF c \in {"LF", "CR", "EOL"}
            THEN [parse_save_field(r) EXCEPT !.state = AfterLineEnd(c)]
            ELSE IF c = "comma"
            THEN [parse_save_field(r) EXCEPT !.state = "START_FIELD"]
            ELSE parse_add_char(r, c)
      [] r.state = "IN_QUOTED_FIELD" ->
            IF c = "EOL" THEN r
            ELSE IF c = "quote" THEN [r EXCEPT !.state = "QUOTE_IN_QUOTED_FIELD"]
            ELSE parse_add_char(r, c)
      [] r.state = "QUOTE_IN_QUOTED_FIELD" ->
            IF c = "quote"
            THEN [parse_add_char(r, c) EXCEPT !.state = "IN_QUOTED_FIELD"]
            ELSE IF c = "comma"
            THEN [parse_save_field(r) EXCEPT !.state = "START_FIELD"]
            ELSE IF c \in {"LF", "CR", "EOL"}
            THEN [parse_save_field(r) EXCEPT !.state = AfterLineEnd(c)]
            ELSE [parse_add_char(r, c) EXCEPT !.state = "IN_FIELD"]
      [] r.state = "EAT_CRNL" ->
            IF c \in {"LF", "CR"} THEN r
            ELSE IF c = "EOL" THEN [r EXCEPT !.state = "START_RECORD"]
            ELSE [r EXCEPT !.state = "ERROR"]
      [] OTHER -> r

RECURSIVE ParseLine(_, _)
ParseLine(r, line) ==
    IF line = <<>> THEN parse_process_char(r, "EOL")
    ELSE ParseLine(parse_process_char(r, Head(line)), Tail(line))

\* Reader.__next__: feed lines until a record is complete.  At the end of
\* the input a pending field (or an open quote) is returned as a last record.
RECURSIVE ReadLines(_, _, _)
ReadLines(text, from, r) ==
    IF from > Len(text)
    THEN IF r.field # <<>> \/ r.state = "IN_QUOTED_FIELD"
         THEN [stop |-> FALSE, row |-> Append(r.fields, r.field), pos |-> from]
         ELSE [stop |-> TRUE, row |-> <<>>, pos |-> from]
    ELSE LET e == LineEnd(text, from)
             r1 == ParseLine(r, SubSeq(text, from, e))
         IN  IF r1.state = "START_RECORD"
             THEN [stop |-> FALSE, row |-> r1.fields, pos |-> e + 1]
             ELSE ReadLines(text, e + 1, r1)

Reader_iternext(text, from) == ReadLines(text, from, ParseReset)

\* every row a csv.reader yields from a text
RECURSIVE ReadAll(_, _)
ReadAll(text, from) ==
    LET n == Reader_iternext(text, from)
    IN  IF n.stop THEN <<>> ELSE <<n.row>> \o ReadAll(text, n.pos)

\* join_append_data: a quote inside a field is doubled; a field holding the
\* delimiter, the quote or a character of the line terminator is quoted
NeedsQuotes(field) ==
    \E i \in DOMAIN field : field[i] \in {"comma", "quote", "CR", "LF"}

Doubled_not(field) == field

RECURSIVE Doubled(_)
Doubled(field) ==
    IF field = <<>> THEN <<>>
    ELSE (IF Head(field) = "quote" THEN <<"quote", "quote">> ELSE <<Head(field)>>)
            \o Doubled(Tail(field))

join_append(field, quoted) ==
    IF quoted THEN <<"quote">> \o Doubled(field) \o <<"quote">> ELSE field

RECURSIVE JoinFields(_, _)
JoinFields(fields, k) ==
    IF k > Len(fields) THEN <<>>
    ELSE (IF k > 1 THEN <<"comma">> ELSE <<>>)
            \o join_append(fields[k], NeedsQuotes(fields[k]))
            \o JoinFields(fields, k + 1)

lineterminator == <<"CR", "LF">>

\* Writer.writerow: a record that would be empty though it has a field (one
\* empty field) is written as a quoted empty field
csv_writerow(fields) ==
    LET rec == JoinFields(fields, 1)
    IN  (IF Len(fields) > 0 /\ rec = <<>> THEN join_append(<<>>, TRUE) ELSE rec)
            \o lineterminator

PlotIdle == df = <<>> /\ series = {} /\ images = {} /\ pivots = {} /\ log = {}

InitCsv ==
    /\ pc = "convert"
    /\ src \in Texts
    /\ pos = 1
    /\ copied = <<>>
    /\ dst = <<>>
    /\ PlotIdle
    /\ ReadIdle
    /\ SubIdle

\* one turn of the loop: the next row of the reader is written
convert_row ==
    /\ pc = "convert"
    /\ LET n == Reader_iternext(src, pos)
       IN  /\ ~n.stop
           /\ copied' = Append(copied, n.row)
           /\ dst' = dst \o csv_writerow(n.row)
           /\ pos' = n.pos
    /\ UNCHANGED <<pc, src, plotvars, readvars, subvars>>

\* the reader is exhausted: both files are closed
convert_end ==
    /\ pc = "convert"
    /\ Reader_iternext(src, pos).stop
    /\ pc' = "converted"
    /\ UNCHANGED <<csvvars, plotvars, readvars, subvars>>

NextCsv == convert_row \/ convert_end

SpecCsv == InitCsv /\ [][NextCsv]_vars

\* C7: once convert has returned, the rows a csv.reader yields from the
\* output are the rows it yielded from the input, in order, field for field.
C7_RowCopy ==
    pc = "converted" => /\ ReadAll(dst, 1) = copied
                        /\ copied = ReadAll(src, 1)

C7_Witness ==
    /\ pc = "converted"
    /\ Len(copied) >= 2
    /\ \E k \in DOMAIN copied : \E f \in DOMAIN copied[k] : NeedsQuotes(copied[k][f])

\* C8: the output has Unix line endings: no carriage return in it.
C8_UnixLineEndings ==
    pc = "converted" => \A i \in DOMAIN dst : dst[i] # "CR"

(***************************************************************************)
(* Reading a data file with malformed fields.  pd.read_csv does not fail   *)
(* on a field that is no number: the whole column comes back as text       *)
(* (dtype object).  load_and_prepare_data then rounds Displacement and     *)
(* Deltap and nothing else; main goes on to plot_efficiencies when it      *)
(* returns.                                                                *)
(***************************************************************************)
MaxFileRows == 2

Columns == {"Speed", "Displacement", "Deltap", "Etat", "Etav", "Etam"}

CellKinds == {"number", "text"}

Files == UNION { [1..n -> [Columns -> CellKinds]] : n \in 1..MaxFileRows }

\* dtype of a column as read_csv infers it
IsObject(f, col) == \E i \in DOMAIN f : f[i][col] = "text"

Malformed(f) == \E col \in Columns : IsObject(f, col)

\* What lines 19-20 can raise.  Series.round() of an object column raises
\* TypeError or, in the pandas versions where it leaves the column alone,
\* astype(int) raises ValueError on the text; Series.round(1) of an object
\* Deltap column raises TypeError or returns the column as it is.
LoadOutcomes(f) ==
    IF IsObject(f, "Displacement") THEN {"TypeError", "ValueError"}
    ELSE IF IsObject(f, "Deltap") THEN {"TypeError", "none"}
    ELSE {"none"}

InitRead ==
    /\ pc = "start"
    /\ cells \in Files
    /\ error = "none"
    /\ PlotIdle
    /\ CsvIdle
    /\ SubIdle

\* main, line 194: df = load_and_prepare_data()
read_load ==
    /\ pc = "start"
    /\ \E e \in LoadOutcomes(cells) :
          /\ error' = e
          /\ pc' = IF e = "none" THEN "plot_efficiencies" ELSE "crashed"
    /\ UNCHANGED <<cells, plotvars, csvvars, subvars>>

\* main, line 195: plot_efficiencies(df) is called with the table returned
read_plot ==
    /\ pc = "plot_efficiencies"
    /\ pc' = "plot_efficiencies called"
    /\ UNCHANGED <<readvars, plotvars, csvvars, subvars>>

NextRead == read_load \/ read_plot

SpecRead == InitRead /\ [][NextRead]_vars

\* C6: a file with a field that is no number never gets past the read: no
\* table is returned and no plotting stage runs.
C6_AllOrNothing ==
    Malformed(cells) => pc \in {"start", "crashed"}

(***************************************************************************)
(* Curve selection of plot_efficiencies on groups with many pressures.     *)
(***************************************************************************)
MaxDistinct == 40

FirstDps == {1, 80, 112}
GapDps == {1, 5}

InitSub ==
    /\ pc = "select"
    /\ \E n \in 1..MaxDistinct, first \in FirstDps, gap \in GapDps :
          dps = [i \in 1..n |-> first + gap * (i - 1)]
    /\ shown = <<>>
    /\ PlotIdle
    /\ CsvIdle
    /\ ReadIdle

\* lines 40-42 for one displacement group
select_curves ==
    /\ pc = "select"
    /\ shown' = filtered_dps(dps)
    /\ pc' = "selected"
    /\ UNCHANGED <<dps, plotvars, csvvars, readvars>>

NextSub == select_curves

SpecSub == InitSub /\ [][NextSub]_vars

CeilDiv(a, b) == (a + b - 1) \div b

ClaimedStep(n) == IF n \div 8 >= 1 THEN n \div 8 ELSE 1

EveryStepth(s, step) ==
    [k \in 1..CeilDiv(Len(s), step) |-> s[1 + (k - 1) * step]]

\* C9 as stated: the plotted pressures are those at positions 0, step,
\* 2*step, ... of the sorted distinct list, step = max(n div 8, 1), and
\* there are at most 8 of them.
C9_AtMostEight ==
    pc = "selected" =>
        /\ shown = EveryStepth(dps, ClaimedStep(Len(dps)))
        /\ Len(shown) <= 8

\* C9 amended: the same positions; the number of curves is ceil(n / step),
\* which is n up to n = 15 and never more than 15.
C9_AtMostFifteen ==
    pc = "selected" =>
        /\ shown = EveryStepth(dps, ClaimedStep(Len(dps)))
        /\ Len(shown) = CeilDiv(Len(dps), ClaimedStep(Len(dps)))
        /\ Len(shown) <= 15
        /\ (Len(dps) <= 15 => Len(shown) = Len(dps))

C9_Witness ==
    /\ pc = "selected"
    /\ Len(dps) = 15
    /\ Len(shown) = 15

====
